---- MODULE Spec2Model ----
(***************************************************************************)
(* A model of the migration safety analyser: the WHERE-clause detector and *)
(* the Drop detector (tasks/context_where.py, tasks/check_drop.py), their  *)
(* aggregated results, the per-file engine (engine.py) and the command     *)
(* line entry point (cli.py).                                              *)
(*                                                                         *)
(* A syntax tree node is [type, args]: args is the node's field mapping in *)
(* its declared order, a sequence of <<name, value>>, and a value is None, *)
(* a scalar string, a single node or a list of values.  A node is referred *)
(* to by its path from the root of its statement: the sequence of          *)
(* <<field index, list index>> steps (list index 0 for a single node).     *)
(***************************************************************************)
EXTENDS Integers, Sequences, FiniteSets, TLC

VARIABLES
    pc,                   \* where the process is
    call,                 \* the library call made, with its argument and outcome
    sql_files,            \* cli: args.sql_files, each [exists, is_file]
    fail_on_danger,       \* cli: args.fail_on_danger
    file_i,               \* cli: position in the loop over args.sql_files
    all_dangerous,        \* cli: list of <<file index, dangerous_count>>
    total_statements,     \* cli: running total
    exit_code,            \* cli: the code given to sys.exit, -1 while none
    sql_text,             \* engine: the text read from the file
    parsed_statements,    \* engine: what sqlglot.parse handed back
    stmt_i,               \* engine: statements of the file the loop has been through
    all_results,          \* engine: the WhereClauseResult of each statement so far
    dangerous_statements, \* engine: 1-based positions of unsafe statements
    tasks_run,            \* engine: <<i, detector>> for each detector run so far
    report,               \* engine: the summary analyse_file printed
    ret                   \* engine: analyse_file's return value, <<-1, -1>> while none

vars == <<pc, call, sql_files, fail_on_danger, file_i, all_dangerous,
          total_statements, exit_code, sql_text, parsed_statements, stmt_i,
          all_results, dangerous_statements, tasks_run, report, ret>>

cliVars == <<sql_files, fail_on_danger, file_i, all_dangerous,
             total_statements, exit_code>>
engineVars == <<sql_text, parsed_statements, stmt_i, all_results,
                dangerous_statements, tasks_run, report, ret>>

(***************************************************************************)
(* Bounds of the model.                                                    *)
(***************************************************************************)
MaxDepth == 2        \* wrapper levels around a leaf statement
MaxStmts == 3        \* statements in one parsed script
MaxFiles == 2        \* files on the command line
MaxDetections == 3   \* detections handed directly to an aggregated result

(***************************************************************************)
(* Python values.                                                          *)
(***************************************************************************)
PyNone == "<None>"
PyBool(b) == IF b THEN "True" ELSE "False"

NoneVal == [tag |-> "None"]
Scalar(s) == [tag |-> "str", s |-> s]
Single(n) == [tag |-> "node", node |-> n]
Many(items) == [tag |-> "list", items |-> items]
Expression(type, args) == [type |-> type, args |-> args]
Arg(name, value) == <<name, value>>

\* The statement sqlglot.parse hands back for an empty chunk: Python's None.
NoneStmt == Expression("NoneType", <<>>)

\* hasattr(ast_node, "args"): every Expression has args, None has not.
HasArgs(ast_node) == ast_node.type # "NoneType"

\* "name" in ast_node.args
HasKey(ast_node, name) == \E k \in DOMAIN ast_node.args : ast_node.args[k][1] = name

\* ast_node.args.get(name): the value, None when the key is absent.
GetArg(ast_node, name) ==
    IF HasKey(ast_node, name)
    THEN ast_node.args[CHOOSE k \in DOMAIN ast_node.args : ast_node.args[k][1] = name][2]
    ELSE NoneVal

\* bool(value) for a field value: None, "" and [] are falsy.
Truthy(value) ==
    CASE value.tag = "None" -> FALSE
      [] value.tag = "str" -> value.s # ""
      [] value.tag = "list" -> value.items # <<>>
      [] OTHER -> TRUE

\* str.upper() on the strings the model uses.
upper(s) ==
    CASE s \in {"TABLE", "Table", "table"} -> "TABLE"
      [] s \in {"COLUMN", "Column", "column"} -> "COLUMN"
      [] s \in {"VIEW", "view"} -> "VIEW"
      [] s = "Command" -> "COMMAND"
      [] s = "Where" -> "WHERE"
      [] s = "Identifier" -> "IDENTIFIER"
      [] s = "NoneType" -> "NONETYPE"
      [] s = "t" -> "T"
      [] s = "" -> ""

(***************************************************************************)
(* tasks/context_where.py                                                  *)
(***************************************************************************)
DANGEROUS_COMMANDS == {"Update", "Delete"}

\* has_where_clause that only asks whether the key is there.
has_where_clause_key_only(ast_node) ==
    HasArgs(ast_node) /\ HasKey(ast_node, "where")

has_where_clause(ast_node) ==
    IF HasArgs(ast_node) /\ HasKey(ast_node, "where")
    THEN GetArg(ast_node, "where") # NoneVal
    ELSE FALSE

get_statement_type(ast_node) ==
    CASE ast_node.type = "Update" -> "UPDATE"
      [] ast_node.type = "Delete" -> "DELETE"
      [] ast_node.type = "Select" -> "SELECT"
      [] ast_node.type = "Insert" -> "INSERT"
      [] ast_node.type = "Merge" -> "MERGE"
      [] ast_node.type = "Create" -> "CREATE"
      [] ast_node.type = "Drop" -> "DROP"
      [] ast_node.type = "Alter" -> "ALTER"
      [] OTHER -> upper(ast_node.type)

\* The result dictionary built for one UPDATE or DELETE node.
DangerousCommandResult(ast_node, path) ==
    LET statement_type == get_statement_type(ast_node)
        has_where == has_where_clause(ast_node)
        is_dangerous == ~has_where
    IN [is_dangerous |-> is_dangerous,
        statement_type |-> statement_type,
        has_where |-> PyBool(has_where),
        message |-> IF is_dangerous
                    THEN <<"Dangerous ", statement_type,
                           " statement without WHERE clause detected!">>
                    ELSE <<statement_type, " statement has WHERE clause - OK">>,
        node |-> path]

RECURSIVE check_ast_for_dangerous_commands(_, _)
RECURSIVE DangerousInArgs(_, _, _)
RECURSIVE DangerousInItems(_, _, _, _)

\* for item in value: if isinstance(item, exp.Expression): results.extend(...)
DangerousInItems(items, path, k, j) ==
    IF j > Len(items) THEN <<>>
    ELSE (IF items[j].tag = "node"
          THEN check_ast_for_dangerous_commands(items[j].node, Append(path, <<k, j>>))
          ELSE <<>>)
         \o DangerousInItems(items, path, k, j + 1)

\* for value in ast_node.args.values(): from the k-th field on
DangerousInArgs(ast_node, path, k) ==
    IF k > Len(ast_node.args) THEN <<>>
    ELSE LET value == ast_node.args[k][2]
         IN (CASE value.tag = "list" -> DangerousInItems(value.items, path, k, 1)
               [] value.tag = "node" ->
                    check_ast_for_dangerous_commands(value.node, Append(path, <<k, 0>>))
               [] OTHER -> <<>>)
            \o DangerousInArgs(ast_node, path, k + 1)

\* check_ast_for_dangerous_commands that stops at a node it has a result for.
check_ast_for_dangerous_commands_no_descent(ast_node, path) ==
    IF ast_node.type \in DANGEROUS_COMMANDS
    THEN <<DangerousCommandResult(ast_node, path)>>
    ELSE IF HasArgs(ast_node) THEN DangerousInArgs(ast_node, path, 1) ELSE <<>>

check_ast_for_dangerous_commands(ast_node, path) ==
    (IF ast_node.type \in DANGEROUS_COMMANDS
     THEN <<DangerousCommandResult(ast_node, path)>>
     ELSE <<>>)
    \o (IF HasArgs(ast_node) THEN DangerousInArgs(ast_node, path, 1) ELSE <<>>)

\* The synthetic result labelled as check_drop labels its own.
SafeResult_other(statement, path) ==
    [is_dangerous |-> FALSE,
     statement_type |-> "OTHER",
     has_where |-> PyNone,
     message |-> <<"OTHER", " statement is safe">>,
     node |-> path]

\* The synthetic result of a statement in which no UPDATE or DELETE was found.
SafeResult(statement, path) ==
    LET statement_type == get_statement_type(statement)
    IN [is_dangerous |-> FALSE,
        statement_type |-> statement_type,
        has_where |-> PyNone,
        message |-> <<statement_type, " statement is safe">>,
        node |-> path]

\* The node field of a result that refers to no node.
NoNode == << <<0, 0>> >>

\* sqlglot.parse's outcome: an error text ("" when it returned), and the
\* statements it returned.
Parsed(statements) == [error |-> "", statements |-> statements]
ParseError(text) == [error |-> text, statements |-> <<>>]

RECURSIVE QueryLoop(_, _)
\* for statement in parsed: from the s-th statement on
QueryLoop(parsed, s) ==
    IF s > Len(parsed) THEN <<>>
    ELSE (IF parsed[s] = NoneStmt THEN <<>>
          ELSE LET statement_results ==
                       check_ast_for_dangerous_commands(parsed[s], << <<0, s>> >>)
               IN IF statement_results = <<>>
                  THEN <<SafeResult(parsed[s], << <<0, s>> >>)>>
                  ELSE statement_results)
         \o QueryLoop(parsed, s + 1)

\* check_dangerous_query that reports a parse failure as dangerous.
check_dangerous_query_fail_closed(outcome) ==
    IF outcome.error # ""
    THEN <<[is_dangerous |-> TRUE, statement_type |-> PyNone,
            has_where |-> PyBool(FALSE),
            message |-> <<"Error parsing SQL: ", outcome.error>>,
            node |-> NoNode]>>
    ELSE IF outcome.statements = <<>>
    THEN <<[is_dangerous |-> FALSE, statement_type |-> PyNone,
            has_where |-> PyBool(FALSE),
            message |-> <<"No valid SQL statement found">>,
            node |-> NoNode]>>
    ELSE QueryLoop(outcome.statements, 1)

check_dangerous_query(outcome) ==
    IF outcome.error # ""
    THEN <<[is_dangerous |-> FALSE, statement_type |-> PyNone,
            has_where |-> PyBool(FALSE),
            message |-> <<"Error parsing SQL: ", outcome.error>>,
            node |-> NoNode]>>
    ELSE IF outcome.statements = <<>>
    THEN <<[is_dangerous |-> FALSE, statement_type |-> PyNone,
            has_where |-> PyBool(FALSE),
            message |-> <<"No valid SQL statement found">>,
            node |-> NoNode]>>
    ELSE QueryLoop(outcome.statements, 1)

Returned(value) == [raised |-> "", value |-> value, message |-> <<>>]
Raised(exception, message) == [raised |-> exception, value |-> FALSE, message |-> message]

RECURSIVE ValidateLoop(_, _, _)
\* for result in results: from the k-th result on
ValidateLoop(results, k, raise_on_danger) ==
    IF k > Len(results) THEN Returned(TRUE)
    ELSE IF results[k].is_dangerous
    THEN (IF raise_on_danger
          THEN Raised("DangerousQueryError", results[k].message)
          ELSE Returned(FALSE))
    ELSE ValidateLoop(results, k + 1, raise_on_danger)

\* validate_sql_safety that never raises.
validate_sql_safety_never_raises(outcome, raise_on_danger) ==
    ValidateLoop(check_dangerous_query(outcome), 1, FALSE)

validate_sql_safety(outcome, raise_on_danger) ==
    ValidateLoop(check_dangerous_query(outcome), 1, raise_on_danger)

\* WhereClauseResult whose count is the number of detections.
WhereClauseResult_counts_all(statement_num, results) ==
    [statement_num |-> statement_num,
     results |-> results,
     is_safe |-> \A k \in DOMAIN results : ~results[k].is_dangerous,
     dangerous_count |-> Len(results),
     statement_type |-> IF results # <<>> THEN results[1].statement_type ELSE "UNKNOWN"]

WhereClauseResult(statement_num, results) ==
    [statement_num |-> statement_num,
     results |-> results,
     is_safe |-> \A k \in DOMAIN results : ~results[k].is_dangerous,
     dangerous_count |-> Cardinality({k \in DOMAIN results : results[k].is_dangerous}),
     statement_type |-> IF results # <<>> THEN results[1].statement_type ELSE "UNKNOWN"]

where_run_task(parsed_stmt, statement_num) ==
    LET found == check_ast_for_dangerous_commands(parsed_stmt, <<>>)
        results == IF found = <<>> THEN <<SafeResult(parsed_stmt, <<>>)>> ELSE found
    IN WhereClauseResult(statement_num, results)

(***************************************************************************)
(* tasks/check_drop.py                                                     *)
(***************************************************************************)
\* Expression.name, the text of the "this" field: the string itself, or the
\* string an Identifier holds, else "".
Name(node) ==
    LET this == GetArg(node, "this")
    IN CASE this.tag = "str" -> this.s
         [] this.tag = "node" /\ this.node.type = "Identifier" ->
              (LET inner == GetArg(this.node, "this")
               IN IF inner.tag = "str" THEN inner.s ELSE "")
         [] OTHER -> ""

AttributeError == Raised("AttributeError", <<"object has no attribute 'name'">>)

\* obj_type and obj_type.name.upper() == label: "True", "False", or
\* "AttributeError" when obj_type is truthy and is not an Expression (a str
\* or a list has no attribute name).
KindIs(obj_type, label) ==
    IF ~Truthy(obj_type) THEN "False"
    ELSE IF obj_type.tag # "node" THEN "AttributeError"
    ELSE PyBool(upper(Name(obj_type.node)) = label)

\* Sequencing of two steps that may raise: the first exception wins.
Then(a, b) ==
    IF a.raised # "" THEN a
    ELSE IF b.raised # "" THEN b
    ELSE Returned(a.value \o b.value)

\* Case 1: DROP TABLE detected
DropTableCase(ast_node, path) ==
    IF ast_node.type # "Drop" THEN Returned(<<>>)
    ELSE LET test == KindIs(GetArg(ast_node, "kind"), "TABLE")
         IN CASE test = "AttributeError" -> AttributeError
              [] test = "True" ->
                   Returned(<<[is_dangerous |-> TRUE,
                               statement_type |-> "DROP TABLE",
                               message |-> <<"DROP TABLE detected - this may cause irreversible data loss.">>,
                               node |-> path]>>)
              [] OTHER -> Returned(<<>>)

RECURSIVE DropColumnActions(_, _, _)
\* for action in actions: from the j-th action on
DropColumnActions(actions, path, j) ==
    IF j > Len(actions) THEN Returned(<<>>)
    ELSE LET action == actions[j]
             here ==
               IF action.tag = "node" /\ action.node.type = "Drop"
               THEN LET test == KindIs(GetArg(action.node, "kind"), "COLUMN")
                    IN CASE test = "AttributeError" -> AttributeError
                         [] test = "True" ->
                              Returned(<<[is_dangerous |-> TRUE,
                                          statement_type |-> "ALTER TABLE DROP COLUMN",
                                          message |-> <<"ALTER TABLE DROP COLUMN detected - this may cause data loss or migration inconsistency.">>,
                                          node |-> path]>>)
                         [] OTHER -> Returned(<<>>)
               ELSE Returned(<<>>)
         IN Then(here, DropColumnActions(actions, path, j + 1))

\* Case 2: ALTER TABLE ... DROP COLUMN detected
DropColumnCase(ast_node, path) ==
    IF ast_node.type # "Alter" THEN Returned(<<>>)
    ELSE LET actions == GetArg(ast_node, "actions")
         IN IF Truthy(actions) /\ actions.tag = "list"
            THEN DropColumnActions(actions.items, path, 1)
            ELSE Returned(<<>>)

RECURSIVE check_ast_for_drop_operations(_, _)
RECURSIVE DropInArgs(_, _, _)
RECURSIVE DropInItems(_, _, _, _)

DropInItems(items, path, k, j) ==
    IF j > Len(items) THEN Returned(<<>>)
    ELSE Then(IF items[j].tag = "node"
              THEN check_ast_for_drop_operations(items[j].node, Append(path, <<k, j>>))
              ELSE Returned(<<>>),
              DropInItems(items, path, k, j + 1))

DropInArgs(ast_node, path, k) ==
    IF k > Len(ast_node.args) THEN Returned(<<>>)
    ELSE LET value == ast_node.args[k][2]
         IN Then(CASE value.tag = "list" -> DropInItems(value.items, path, k, 1)
                   [] value.tag = "node" ->
                        check_ast_for_drop_operations(value.node, Append(path, <<k, 0>>))
                   [] OTHER -> Returned(<<>>),
                 DropInArgs(ast_node, path, k + 1))

check_ast_for_drop_operations(ast_node, path) ==
    Then(DropTableCase(ast_node, path),
         Then(DropColumnCase(ast_node, path),
              IF HasArgs(ast_node) THEN DropInArgs(ast_node, path, 1)
              ELSE Returned(<<>>)))

DropOperationResult(statement_num, results) ==
    [statement_num |-> statement_num,
     results |-> results,
     is_safe |-> \A k \in DOMAIN results : ~results[k].is_dangerous,
     dangerous_count |-> Cardinality({k \in DOMAIN results : results[k].is_dangerous}),
     statement_type |-> IF results # <<>> THEN results[1].statement_type ELSE "UNKNOWN"]

drop_run_task(parsed_stmt, statement_num) ==
    LET found == check_ast_for_drop_operations(parsed_stmt, <<>>)
    IN IF found.raised # "" THEN found
       ELSE Returned(DropOperationResult(statement_num,
                IF found.value = <<>>
                THEN <<[is_dangerous |-> FALSE,
                        statement_type |-> "OTHER",
                        message |-> <<"No destructive DROP operations detected.">>,
                        node |-> <<>>]>>
                ELSE found.value))

(***************************************************************************)
(* The syntax trees the operations are run on.                             *)
(***************************************************************************)
Ident(s) == Expression("Identifier", <<Arg("this", Scalar(s))>>)
TableT == Expression("Table", <<Arg("this", Single(Ident("t")))>>)
WhereLeaf == Expression("Where", <<Arg("this", Scalar("id = 1"))>>)

\* An UPDATE or DELETE whose "where" field is absent, None, a node or a scalar.
Mutation(type, where) ==
    Expression(type,
        <<Arg("this", Single(TableT))>> \o
        (CASE where = "absent" -> <<>>
           [] where = "null" -> <<Arg("where", NoneVal)>>
           [] where = "node" -> <<Arg("where", Single(WhereLeaf))>>
           [] where = "scalar" -> <<Arg("where", Scalar("TRUE"))>>))

Plain(type) == Expression(type, <<Arg("this", Single(TableT))>>)

\* The values of a DROP's "kind" field; "absent" stands for no such field.
KindValues ==
    {NoneVal, Scalar(""), Scalar("TABLE"), Scalar("column")}
    \cup {Single(Ident(s)) : s \in {"TABLE", "table", "COLUMN", "Column", "VIEW"}}

Drop(kind) == Expression("Drop", <<Arg("this", Single(TableT)), Arg("kind", kind)>>)
DropNoKind == Plain("Drop")

Leaves ==
    {Mutation(type, where) : type \in DANGEROUS_COMMANDS,
                             where \in {"absent", "null", "node", "scalar"}}
    \cup {Plain(type) : type \in {"Select", "Insert", "Merge", "Create", "Command"}}
    \cup {Drop(kind) : kind \in KindValues} \cup {DropNoKind}
    \cup {Plain("Alter"),
          Expression("Alter", <<Arg("this", Single(TableT)), Arg("actions", NoneVal)>>),
          Expression("Alter", <<Arg("this", Single(TableT)), Arg("actions", Many(<<>>))>>)}

\* The nodes built around a child node c.
InList(c) == Expression("Select", <<Arg("expressions", Many(<<Scalar("*"), Single(c)>>))>>)
InWhere(c) ==
    Expression("Update",
        <<Arg("this", Single(TableT)),
          Arg("where", Single(Expression("Where", <<Arg("this", Single(c))>>)))>>)
InDelete(c) == Expression("Delete", <<Arg("this", Single(c))>>)
InCommand(c) == Expression("Command", <<Arg("this", Scalar("x")), Arg("expression", Single(c))>>)
AlterOne(c) ==
    Expression("Alter", <<Arg("this", Single(TableT)), Arg("actions", Many(<<Single(c)>>))>>)
AlterTwo(c) ==
    Expression("Alter",
        <<Arg("this", Single(TableT)),
          Arg("actions", Many(<<Single(Drop(Single(Ident("column")))), Single(c)>>))>>)

Wrappers(c) == {InList(c), InWhere(c), InDelete(c), InCommand(c), AlterOne(c), AlterTwo(c)}

RECURSIVE Trees(_)
Trees(d) ==
    IF d = 0 THEN Leaves
    ELSE Leaves \cup UNION {Wrappers(c) : c \in Trees(d - 1)}

\* What a detector may be handed: a statement tree, or None.
Statements == Trees(MaxDepth) \cup {NoneStmt}

\* The statements of the scripts that are analysed.
UpdateWhere == Mutation("Update", "node")
DeleteNoWhere == Mutation("Delete", "absent")
ScriptStmts == {UpdateWhere, DeleteNoWhere, Plain("Select"), InWhere(DeleteNoWhere)}

SeqsOf(S, lo, hi) == UNION {[1..n -> S] : n \in lo..hi}

Texts == {"", "sql"}

\* sqlglot.parse(sql_text): for empty text no statement or one None; else the
\* statements of the script, or a ParseError.
Parse(text) ==
    IF text = "" THEN {Parsed(<<>>), Parsed(<<NoneStmt>>)}
    ELSE {Parsed(statements) : statements \in SeqsOf(ScriptStmts, 1, MaxStmts)}
         \cup {ParseError("Invalid expression / Unexpected token")}

\* sqlglot.parse(sql_query, read=dialect) of a single query
ParseQuery(text) ==
    Parse(text) \cup
    (IF text = "" THEN {} ELSE {Parsed(<<statement>>) : statement \in Statements})

\* The detections an aggregated result can be constructed from.
Detections ==
    {[is_dangerous |-> d, statement_type |-> t, has_where |-> PyBool(~d),
      message |-> <<>>, node |-> <<>>] : d \in BOOLEAN, t \in {"UPDATE", "DELETE"}}

(***************************************************************************)
(* Library calls.                                                          *)
(***************************************************************************)
NoCall == [op |-> "none"]
NoReport == [printed |-> FALSE]

CallCheckAstForDangerousCommands ==
    /\ pc = "idle"
    /\ \E ast_node \in Statements :
          call' = [op |-> "check_ast_for_dangerous_commands", arg |-> ast_node,
                    out |-> check_ast_for_dangerous_commands(ast_node, <<>>)]
    /\ pc' = "called"
    /\ UNCHANGED <<cliVars, engineVars>>

CallWhereRunTask ==
    /\ pc = "idle"
    /\ \E parsed_stmt \in Statements :
          call' = [op |-> "context_where.run_task", arg |-> parsed_stmt,
                    out |-> where_run_task(parsed_stmt, 1)]
    /\ pc' = "called"
    /\ UNCHANGED <<cliVars, engineVars>>

CallCheckDangerousQuery ==
    /\ pc = "idle"
    /\ \E sql_query \in Texts : \E outcome \in ParseQuery(sql_query) :
          call' = [op |-> "check_dangerous_query", text |-> sql_query, parsed |-> outcome,
                    out |-> check_dangerous_query(outcome)]
    /\ pc' = "called"
    /\ UNCHANGED <<cliVars, engineVars>>

CallValidateSqlSafety ==
    /\ pc = "idle"
    /\ \E sql_query \in Texts : \E outcome \in ParseQuery(sql_query) :
         \E raise_on_danger \in BOOLEAN :
          call' = [op |-> "validate_sql_safety", text |-> sql_query, parsed |-> outcome,
                    raise_on_danger |-> raise_on_danger,
                    out |-> validate_sql_safety(outcome, raise_on_danger)]
    /\ pc' = "called"
    /\ UNCHANGED <<cliVars, engineVars>>

CallCheckAstForDropOperations ==
    /\ pc = "idle"
    /\ \E ast_node \in Statements :
          call' = [op |-> "check_ast_for_drop_operations", arg |-> ast_node,
                    out |-> check_ast_for_drop_operations(ast_node, <<>>)]
    /\ pc' = "called"
    /\ UNCHANGED <<cliVars, engineVars>>

CallDropRunTask ==
    /\ pc = "idle"
    /\ \E parsed_stmt \in Statements :
          call' = [op |-> "check_drop.run_task", arg |-> parsed_stmt,
                    out |-> drop_run_task(parsed_stmt, 1)]
    /\ pc' = "called"
    /\ UNCHANGED <<cliVars, engineVars>>

CallWhereClauseResult ==
    /\ pc = "idle"
    /\ \E results \in SeqsOf(Detections, 0, MaxDetections) :
          call' = [op |-> "WhereClauseResult", arg |-> results,
                    out |-> WhereClauseResult(1, results)]
    /\ pc' = "called"
    /\ UNCHANGED <<cliVars, engineVars>>

CallDropOperationResult ==
    /\ pc = "idle"
    /\ \E results \in SeqsOf(Detections, 0, MaxDetections) :
          call' = [op |-> "DropOperationResult", arg |-> results,
                    out |-> DropOperationResult(1, results)]
    /\ pc' = "called"
    /\ UNCHANGED <<cliVars, engineVars>>

(***************************************************************************)
(* cli.py main, and engine.py analyse_file which it calls for each file.   *)
(***************************************************************************)
FileStates ==
    {[exists |-> FALSE, is_file |-> FALSE],
     [exists |-> TRUE, is_file |-> FALSE],
     [exists |-> TRUE, is_file |-> TRUE]}

EngineInit ==
    /\ sql_text = ""
    /\ parsed_statements = <<>>
    /\ stmt_i = 0
    /\ all_results = <<>>
    /\ dangerous_statements = <<>>
    /\ tasks_run = <<>>
    /\ report = NoReport
    /\ ret = <<-1, -1>>

Init ==
    /\ pc = "idle"
    /\ call = NoCall
    /\ sql_files = <<>>
    /\ fail_on_danger = TRUE
    /\ file_i = 0
    /\ all_dangerous = <<>>
    /\ total_statements = 0
    /\ exit_code = -1
    /\ EngineInit

\* args = parser.parse_args(): one file or more, and the flag.
Main ==
    /\ pc = "idle"
    /\ \E n \in 1..MaxFiles : \E files \in [1..n -> FileStates] :
       \E flag \in BOOLEAN :
          /\ sql_files' = files
          /\ fail_on_danger' = flag
    /\ file_i' = 1
    /\ pc' = "validate"
    /\ UNCHANGED <<call, all_dangerous, total_statements, exit_code, engineVars>>

\* One round of "for sql_file in args.sql_files" that validates the files.
ValidateFile ==
    /\ pc = "validate"
    /\ IF ~sql_files[file_i].exists \/ ~sql_files[file_i].is_file
       THEN /\ exit_code' = 2
            /\ pc' = "exited"
            /\ UNCHANGED file_i
       ELSE /\ IF file_i = Len(sql_files)
               THEN pc' = "analyse" /\ file_i' = 1
               ELSE pc' = "validate" /\ file_i' = file_i + 1
            /\ UNCHANGED exit_code
    /\ UNCHANGED <<call, sql_files, fail_on_danger, all_dangerous,
                   total_statements, engineVars>>

\* analyse_file up to its loop: read the file, parse it, return early when
\* nothing was parsed.  A ParseError is not caught here, nor in main.
AnalyseFile ==
    /\ pc = "analyse"
    /\ \E text \in Texts : \E outcome \in Parse(text) :
          /\ sql_text' = text
          /\ IF outcome.error # ""
             THEN /\ pc' = "raised"
                  /\ UNCHANGED <<parsed_statements, ret>>
             ELSE /\ parsed_statements' = outcome.statements
                  /\ IF outcome.statements = <<>>
                     THEN pc' = "file_done" /\ ret' = <<0, 0>>
                     ELSE pc' = "statements" /\ UNCHANGED ret
    /\ UNCHANGED <<call, cliVars, stmt_i, all_results, dangerous_statements,
                   tasks_run, report>>

\* enumerate(parsed_statements, start=1): the index given to the statement
\* that follows `done` statements.
enumerate_index_from_zero(done) == done

enumerate_index(done) == done + 1

\* One round of "for i, stmt in enumerate(parsed_statements, start=1)".  The
\* example task's result is only printed.
CheckStatement ==
    /\ pc = "statements"
    /\ LET i == enumerate_index(stmt_i)
           stmt == parsed_statements[stmt_i + 1]
           result_where == where_run_task(stmt, i)
       IN /\ tasks_run' = tasks_run \o << <<i, "task_example">>, <<i, "context_where">> >>
          /\ all_results' = Append(all_results, result_where)
          /\ dangerous_statements' =
                IF ~result_where.is_safe THEN Append(dangerous_statements, i)
                ELSE dangerous_statements
          /\ stmt_i' = stmt_i + 1
          /\ pc' = IF stmt_i + 1 = Len(parsed_statements) THEN "summary"
                   ELSE "statements"
    /\ UNCHANGED <<call, cliVars, sql_text, parsed_statements, report, ret>>

\* The summary analyse_file prints, and its return value.
Summary ==
    /\ pc = "summary"
    /\ report' =
         [printed |-> TRUE,
          total |-> Len(parsed_statements),
          safe |-> Cardinality({k \in DOMAIN all_results : all_results[k].is_safe}),
          dangerous |-> Len(dangerous_statements),
          positions |-> dangerous_statements,
          details |-> [k \in DOMAIN dangerous_statements |->
                         <<dangerous_statements[k],
                           all_results[dangerous_statements[k]].statement_type>>]]
    /\ ret' = <<Len(dangerous_statements), Len(parsed_statements)>>
    /\ pc' = "file_done"
    /\ UNCHANGED <<call, cliVars, sql_text, parsed_statements, stmt_i,
                   all_results, dangerous_statements, tasks_run>>

\* main takes analyse_file's return value and goes to the next file.
FileDone ==
    /\ pc = "file_done"
    /\ total_statements' = total_statements + ret[2]
    /\ all_dangerous' =
         IF ret[1] > 0 THEN Append(all_dangerous, <<file_i, ret[1]>>)
         ELSE all_dangerous
    /\ IF file_i = Len(sql_files)
       THEN pc' = "overall" /\ UNCHANGED file_i
       ELSE pc' = "analyse" /\ file_i' = file_i + 1
    /\ sql_text' = ""
    /\ parsed_statements' = <<>>
    /\ stmt_i' = 0
    /\ all_results' = <<>>
    /\ dangerous_statements' = <<>>
    /\ tasks_run' = <<>>
    /\ report' = NoReport
    /\ ret' = <<-1, -1>>
    /\ UNCHANGED <<call, sql_files, fail_on_danger, exit_code>>

\* The overall summary and the exit.
Overall ==
    /\ pc = "overall"
    /\ IF all_dangerous # <<>>
       THEN IF fail_on_danger
            THEN exit_code' = 1 /\ pc' = "exited"
            ELSE pc' = "returned" /\ UNCHANGED exit_code
       ELSE exit_code' = 0 /\ pc' = "exited"
    /\ UNCHANGED <<call, sql_files, fail_on_danger, file_i, all_dangerous,
                   total_statements, engineVars>>

Next ==
    \/ CallCheckAstForDangerousCommands
    \/ CallWhereRunTask
    \/ CallCheckDangerousQuery
    \/ CallValidateSqlSafety
    \/ CallCheckAstForDropOperations
    \/ CallDropRunTask
    \/ CallWhereClauseResult
    \/ CallDropOperationResult
    \/ Main
    \/ ValidateFile
    \/ AnalyseFile
    \/ CheckStatement
    \/ Summary
    \/ FileDone
    \/ Overall

Spec == Init /\ [][Next]_vars

(***************************************************************************)
(* What the claims are stated with.                                        *)
(***************************************************************************)
RECURSIVE NodePaths(_, _)
\* The paths of all nodes of the tree rooted at node, itself at path.
NodePaths(node, path) ==
    {path} \cup
    UNION {LET value == node.args[k][2]
           IN CASE value.tag = "node" -> NodePaths(value.node, Append(path, <<k, 0>>))
                [] value.tag = "list" ->
                     UNION {NodePaths(value.items[j].node, Append(path, <<k, j>>)) :
                            j \in {j \in DOMAIN value.items : value.items[j].tag = "node"}}
                [] OTHER -> {}
           : k \in DOMAIN node.args}

RECURSIVE NodeAt(_, _)
NodeAt(root, path) ==
    IF path = <<>> THEN root
    ELSE LET value == root.args[Head(path)[1]][2]
         IN NodeAt(IF Head(path)[2] = 0 THEN value.node
                   ELSE value.items[Head(path)[2]].node,
                   Tail(path))

IsMutation(node) == node.type \in {"Update", "Delete"}

\* The "where" field is present and not null.
WherePresent(node) ==
    \E a \in DOMAIN node.args : node.args[a][1] = "where" /\ node.args[a][2].tag # "None"

MutationPaths(root) == {p \in NodePaths(root, <<>>) : IsMutation(NodeAt(root, p))}

\* A statement with an UPDATE or DELETE, at any depth, that has no WHERE.
Unfiltered(root) == \E p \in MutationPaths(root) : ~WherePresent(NodeAt(root, p))

\* The text of a node's target-object-kind, however it is held; "" when it
\* is absent, null, or holds no text.
KindText(node) ==
    IF \E a \in DOMAIN node.args : node.args[a][1] = "kind"
    THEN LET value == node.args[CHOOSE a \in DOMAIN node.args : node.args[a][1] = "kind"][2]
         IN CASE value.tag = "str" -> value.s
              [] value.tag = "node" -> Name(value.node)
              [] OTHER -> ""
    ELSE ""

KindEquals(node, label) == KindText(node) \in
    (CASE label = "TABLE" -> {"TABLE", "Table", "table"}
       [] label = "COLUMN" -> {"COLUMN", "Column", "column"})

RECURSIVE CountDangerous(_)
CountDangerous(results) ==
    IF results = <<>> THEN 0
    ELSE (IF Head(results).is_dangerous THEN 1 ELSE 0) + CountDangerous(Tail(results))

(***************************************************************************)
(* C1: for every UPDATE or DELETE node of the tree handed to               *)
(* check_ast_for_dangerous_commands, the returned list holds exactly one   *)
(* result for that node, with has_where = (the "where" field is present    *)
(* and not null) and is_dangerous = NOT has_where.                         *)
(***************************************************************************)
C1_OneResultPerMutation ==
    call.op = "check_ast_for_dangerous_commands" =>
        \A p \in MutationPaths(call.arg) :
            LET hits == {k \in DOMAIN call.out : call.out[k].node = p}
                present == WherePresent(NodeAt(call.arg, p))
            IN /\ Cardinality(hits) = 1
               /\ \A k \in hits :
                     /\ call.out[k].has_where = PyBool(present)
                     /\ call.out[k].is_dangerous = ~present

\* A tree with a nested UPDATE/DELETE whose "where" is null next to one whose
\* "where" is there: one result dangerous, one not.
C1_Witness ==
    /\ call.op = "check_ast_for_dangerous_commands"
    /\ \E p \in MutationPaths(call.arg) :
          /\ p # <<>>
          /\ HasKey(NodeAt(call.arg, p), "where")
          /\ ~WherePresent(NodeAt(call.arg, p))
    /\ \E k \in DOMAIN call.out : call.out[k].is_dangerous
    /\ \E k \in DOMAIN call.out : ~call.out[k].is_dangerous

(***************************************************************************)
(* C2: for a statement whose tree holds no UPDATE or DELETE node at any    *)
(* depth, run_task and check_dangerous_query (of that one parsed           *)
(* statement) yield exactly one result, not dangerous, whose               *)
(* statement_type is get_statement_type of the root.                       *)
(***************************************************************************)
OneSafeResultFor(results, statement) ==
    /\ Len(results) = 1
    /\ ~results[1].is_dangerous
    /\ results[1].statement_type = get_statement_type(statement)

C2_NoMutationOneSafeResult ==
    /\ (call.op = "context_where.run_task" /\ MutationPaths(call.arg) = {})
          => OneSafeResultFor(call.out.results, call.arg)
    /\ (/\ call.op = "check_dangerous_query"
        /\ call.parsed.error = ""
        /\ Len(call.parsed.statements) = 1
        /\ call.parsed.statements[1] # NoneStmt
        /\ MutationPaths(call.parsed.statements[1]) = {})
          => OneSafeResultFor(call.out, call.parsed.statements[1])

\* An ALTER with nested nodes and no UPDATE or DELETE, run through run_task.
C2_Witness ==
    /\ call.op = "context_where.run_task"
    /\ call.arg.type = "Alter"
    /\ MutationPaths(call.arg) = {}
    /\ Cardinality(NodePaths(call.arg, <<>>)) > 4
    /\ call.out.statement_type = "ALTER"

(***************************************************************************)
(* C3: a statement whose root is a DROP node with target-object-kind TABLE *)
(* (whatever its case) yields exactly one dangerous Drop-detector result,  *)
(* of type "DROP TABLE": check_drop.run_task reports is_safe = false and   *)
(* dangerous_count = 1.                                                    *)
(***************************************************************************)
C3_DropTableOneDangerous ==
    (/\ call.op = "check_drop.run_task"
     /\ call.arg.type = "Drop"
     /\ KindEquals(call.arg, "TABLE"))
    => /\ call.out.raised = ""
       /\ ~call.out.value.is_safe
       /\ call.out.value.dangerous_count = 1
       /\ Len(call.out.value.results) = 1
       /\ call.out.value.results[1].is_dangerous
       /\ call.out.value.results[1].statement_type = "DROP TABLE"

(***************************************************************************)
(* C4: for an ALTER node, the Drop detector yields exactly one dangerous   *)
(* result of type "ALTER TABLE DROP COLUMN", attributed to the ALTER, for  *)
(* each DROP node of target-object-kind COLUMN at any depth inside the     *)
(* ALTER's action list.  Stated for the trees whose kinds are nodes with a *)
(* name, on which the detector does not raise.                             *)
(***************************************************************************)
\* The DROP COLUMN nodes inside the "actions" field of the ALTER at the root.
DropColumnsInActions(alter) ==
    {p \in NodePaths(alter, <<>>) :
        /\ p # <<>>
        /\ alter.args[p[1][1]][1] = "actions"
        /\ NodeAt(alter, p).type = "Drop"
        /\ KindEquals(NodeAt(alter, p), "COLUMN")}

\* Every target-object-kind in the tree is held the way the detector reads
\* it: absent, null, or a node that has a name.
KindsAreNodes(root) ==
    \A p \in NodePaths(root, <<>>) :
        GetArg(NodeAt(root, p), "kind").tag \in {"None", "node"}

C4_AlterDropColumnAnyDepth ==
    (/\ call.op = "check_ast_for_drop_operations"
     /\ call.arg.type = "Alter"
     /\ KindsAreNodes(call.arg))
    => /\ call.out.raised = ""
       /\ LET hits == {k \in DOMAIN call.out.value :
                          /\ call.out.value[k].node = <<>>
                          /\ call.out.value[k].statement_type = "ALTER TABLE DROP COLUMN"}
          IN /\ Cardinality(hits) = Cardinality(DropColumnsInActions(call.arg))
             /\ \A k \in hits : call.out.value[k].is_dangerous

(***************************************************************************)
(* C5: every aggregated result, of either detector and for any sequence of *)
(* detections, the empty one included, has dangerous_count equal to the    *)
(* number of its detections that are dangerous, and is_safe exactly when   *)
(* dangerous_count is 0.                                                   *)
(***************************************************************************)
AggregateSound(aggregated) ==
    /\ aggregated.dangerous_count = CountDangerous(aggregated.results)
    /\ aggregated.is_safe = (aggregated.dangerous_count = 0)

C5_AggregatesSound ==
    /\ call.op \in {"WhereClauseResult", "DropOperationResult"}
          => AggregateSound(call.out) /\ call.out.results = call.arg
    /\ call.op = "context_where.run_task" => AggregateSound(call.out)
    /\ (call.op = "check_drop.run_task" /\ call.out.raised = "")
          => AggregateSound(call.out.value)
    /\ \A k \in DOMAIN all_results : AggregateSound(all_results[k])

\* A WhereClauseResult built from three detections of which two are dangerous.
C5_Witness ==
    /\ call.op = "WhereClauseResult"
    /\ Len(call.arg) = 3
    /\ call.out.dangerous_count = 2
    /\ ~call.out.is_safe

(***************************************************************************)
(* C6: analyse_file goes through the statements in source order with       *)
(* 1-based indices: the list of dangerous positions is strictly            *)
(* increasing and holds i exactly when the WHERE-clause result of the i-th *)
(* statement is not safe; the returned total is the number of statements,  *)
(* and safe count plus dangerous count is the total.  The script           *)
(* [safe UPDATE, DELETE without WHERE, SELECT] gives positions [2],        *)
(* total 3, safe 2.                                                        *)
(***************************************************************************)
ExampleScript == <<UpdateWhere, DeleteNoWhere, Plain("Select")>>

C6_PositionsInSourceOrder ==
    (pc \in {"statements", "summary", "file_done"} /\ parsed_statements # <<>>)
    => /\ Len(all_results) = stmt_i
       /\ \A k \in DOMAIN all_results :
             /\ all_results[k].statement_num = k
             /\ all_results[k].is_safe = ~Unfiltered(parsed_statements[k])
       /\ \A k \in DOMAIN dangerous_statements :
             /\ dangerous_statements[k] \in 1..stmt_i
             /\ k > 1 => dangerous_statements[k - 1] < dangerous_statements[k]
       /\ \A i \in 1..stmt_i :
             (\E k \in DOMAIN dangerous_statements : dangerous_statements[k] = i)
                <=> ~all_results[i].is_safe
       /\ pc = "file_done" =>
             /\ stmt_i = Len(parsed_statements)
             /\ ret = <<Len(dangerous_statements), Len(parsed_statements)>>
             /\ report.printed
             /\ report.positions = dangerous_statements
             /\ report.total = Len(parsed_statements)
             /\ report.safe + report.dangerous = report.total
             /\ parsed_statements = ExampleScript =>
                   /\ report.positions = <<2>>
                   /\ report.total = 3
                   /\ report.safe = 2

\* The three-statement script, analysed to the end.
C6_Witness ==
    /\ pc = "file_done"
    /\ parsed_statements = ExampleScript
    /\ dangerous_statements = <<2>>
    /\ ret = <<1, 3>>

(***************************************************************************)
(* C7: for empty input text analyse_file returns (0 dangerous, 0 total)    *)
(* and runs no detector, whether the parser hands back no statement or one *)
(* null statement.                                                         *)
(***************************************************************************)
C7_EmptyTextNoStatements ==
    (pc = "file_done" /\ sql_text = "") => (ret = <<0, 0>> /\ tasks_run = <<>>)

(***************************************************************************)
(* C8: validate_sql_safety returns true exactly when no result of          *)
(* check_dangerous_query is dangerous; when one is, it returns false if    *)
(* raise_on_danger is false and raises DangerousQueryError with the        *)
(* message of the first dangerous result if it is true.                    *)
(***************************************************************************)
C8_ValidateVerdict ==
    call.op = "validate_sql_safety" =>
        LET results == check_dangerous_query(call.parsed)
            dangerous == {k \in DOMAIN results : results[k].is_dangerous}
        IN IF dangerous = {}
           THEN call.out.raised = "" /\ call.out.value = TRUE
           ELSE IF call.raise_on_danger
           THEN /\ call.out.raised = "DangerousQueryError"
                /\ \E k \in dangerous :
                      /\ \A j \in dangerous : k <= j
                      /\ call.out.message = results[k].message
           ELSE call.out.raised = "" /\ call.out.value = FALSE

\* A query with two dangerous results of different messages, raise_on_danger
\* set: the exception carries the first one's.
C8_Witness ==
    /\ call.op = "validate_sql_safety"
    /\ call.raise_on_danger
    /\ call.out.raised = "DangerousQueryError"
    /\ LET results == check_dangerous_query(call.parsed)
       IN \E j \in DOMAIN results :
             results[j].is_dangerous /\ results[j].message # call.out.message

(***************************************************************************)
(* C9: when parsing fails, check_dangerous_query returns exactly one       *)
(* result, not dangerous, with statement_type null and a message carrying  *)
(* the parser's error text, and validate_sql_safety returns true even with *)
(* raise_on_danger set.                                                    *)
(***************************************************************************)
C9_ParseFailureIsSafe ==
    /\ (call.op = "check_dangerous_query" /\ call.parsed.error # "")
          => /\ Len(call.out) = 1
             /\ ~call.out[1].is_dangerous
             /\ call.out[1].statement_type = PyNone
             /\ call.out[1].message[Len(call.out[1].message)] = call.parsed.error
    /\ (call.op = "validate_sql_safety" /\ call.parsed.error # "")
          => call.out.raised = "" /\ call.out.value = TRUE

\* Unparseable text validated with raise_on_danger set.
C9_Witness ==
    /\ call.op = "validate_sql_safety"
    /\ call.parsed.error # ""
    /\ call.raise_on_danger
    /\ call.out.value = TRUE

(***************************************************************************)
(* C10: every run of main that goes through its checks and its analysis    *)
(* ends in sys.exit: with 2 if a file is missing or not a regular file,    *)
(* else with 1 if a file has a dangerous statement and fail_on_danger is   *)
(* set, else with 0.                                                       *)
(***************************************************************************)
ExpectedExit ==
    IF \E k \in DOMAIN sql_files : ~sql_files[k].exists \/ ~sql_files[k].is_file
    THEN 2
    ELSE IF all_dangerous # <<>> /\ fail_on_danger THEN 1 ELSE 0

C10_ExplicitExitCode ==
    pc \in {"exited", "returned"} => (pc = "exited" /\ exit_code = ExpectedExit)

(***************************************************************************)
(* C11: for every statement it analyses, analyse_file runs both the        *)
(* WHERE-clause detector and the Drop detector, each as a pass of its own  *)
(* over that statement.                                                    *)
(***************************************************************************)
TaskRan(i, task) == \E k \in DOMAIN tasks_run : tasks_run[k] = <<i, task>>

C11_BothDetectorsPerStatement ==
    pc \in {"statements", "summary", "file_done"} =>
        \A i \in 1..stmt_i : TaskRan(i, "context_where") /\ TaskRan(i, "check_drop")

(***************************************************************************)
(* C12: both detectors return their results in pre-order: the root's,      *)
(* then those of each child field in the mapping's order, list fields      *)
(* element by element; nothing comes from a scalar, an absent field or a   *)
(* list element that is no node; every node is visited once, below         *)
(* matching and non-matching nodes alike, so the WHERE detector returns as *)
(* many results as the tree has UPDATE and DELETE nodes.  For the Drop     *)
(* detector this is stated of the lists it returns.                        *)
(***************************************************************************)
StepLess(a, b) == a[1] < b[1] \/ (a[1] = b[1] /\ a[2] < b[2])

\* p comes before q in pre-order: p is an ancestor of q, or branches off to
\* an earlier field or list element.
PathBefore(p, q) ==
    \/ Len(p) < Len(q) /\ \A n \in DOMAIN p : p[n] = q[n]
    \/ \E n \in DOMAIN p \cap DOMAIN q :
          /\ \A m \in 1..(n - 1) : p[m] = q[m]
          /\ StepLess(p[n], q[n])

\* The results the Drop detector owes the node at path p: one for a DROP of
\* a TABLE, one per DROP of a COLUMN among the actions of an ALTER.
DropResultsDue(root, p) ==
    LET node == NodeAt(root, p)
        actions == GetArg(node, "actions")
    IN CASE node.type = "Drop" -> IF KindEquals(node, "TABLE") THEN 1 ELSE 0
         [] node.type = "Alter" /\ actions.tag = "list" ->
              Cardinality({j \in DOMAIN actions.items :
                              /\ actions.items[j].tag = "node"
                              /\ actions.items[j].node.type = "Drop"
                              /\ KindEquals(actions.items[j].node, "COLUMN")})
         [] OTHER -> 0

KnownTypes == {"Update", "Delete", "Select", "Insert", "Merge", "Create", "Drop", "Alter"}

C13_DetectorsNeverRaise ==
    /\ (call.op \in {"check_ast_for_drop_operations", "check_drop.run_task"}
          /\ call.arg # NoneStmt)
       => call.out.raised = ""
    /\ (call.op = "context_where.run_task" /\ call.arg # NoneStmt
          /\ call.arg.type \notin KnownTypes /\ MutationPaths(call.arg) = {})
       => call.out.statement_type = upper(call.arg.type)

(***************************************************************************)
(* C14: every statement-level entry point yields at least one detection:   *)
(* check_dangerous_query returns a non-empty list whatever the parser      *)
(* gave, a list of null entries included, and both run_task functions      *)
(* aggregate a non-empty sequence.                                         *)
(***************************************************************************)
C14_AtLeastOneDetection ==
    /\ call.op = "check_dangerous_query" => Len(call.out) >= 1
    /\ call.op = "context_where.run_task" => Len(call.out.results) >= 1
    /\ (call.op = "check_drop.run_task" /\ call.out.raised = "")
       => Len(call.out.value.results) >= 1

(***************************************************************************)
(* C15: the type analyse_file prints for a dangerous statement, in the     *)
(* line "<type> without WHERE clause", is the type of a detection of that  *)
(* statement that is dangerous, also when the first UPDATE or DELETE in    *)
(* pre-order has a WHERE clause and one below it has none.                 *)
(***************************************************************************)
C15_DetailTypeIsDangerous ==
    (pc = "file_done" /\ report.printed) =>
        \A k \in DOMAIN report.details :
            LET detections == all_results[report.details[k][1]].results
            IN \E d \in DOMAIN detections :
                  /\ detections[d].is_dangerous
                  /\ detections[d].statement_type = report.details[k][2]

====
